---- MODULE Spec2Model ----
(***************************************************************************)
(* photos-tank: the upload transaction of server.js                        *)
(* (POST /api/events/:eventId/upload), the event creation handler and the  *)
(* two stores they touch: the metadata file events.json and the Cloudinary *)
(* blob store.                                                             *)
(*                                                                         *)
(* One action is one run of handler code between two awaits: node runs a   *)
(* handler without interruption until it awaits, and the continuation of   *)
(* an awaited Promise.all runs in the microtask queue right after the      *)
(* callback that settled it, before any other I/O callback.                *)
(***************************************************************************)
EXTENDS Integers, Sequences, FiniteSets, TLC

\* ---------------------------------------------------------------- bounds
MaxCalls == 2        \* upload calls made in one run
MaxEvents == 2       \* events created in one run
MaxReadFaults == 1   \* failing reads of events.json in one run (SpecReadFaults)
MaxRecords == 3      \* Upload records of the gallery a download starts from
MaxDownloads == 2    \* downloads made one after the other (SpecTwice)

\* ------------------------------------------------------ program constants
MaxFileCount == 20               \* upload.array('files', 20)
fileSize == 10485760             \* limits: { fileSize: 10 * 1024 * 1024 }
MaxGuestNameLength == 100        \* validateInputLength(guestName, 100)
MaxMessageLength == 500          \* validateInputLength(message, 500)

ALLOWED_MIME_TYPES ==
  { "image/jpeg", "image/png", "image/gif", "image/webp", "video/mp4",
    "video/webm", "video/ogg", "video/quicktime", "video/x-msvideo" }

ALLOWED_EXTENSIONS ==
  { ".jpg", ".jpeg", ".png", ".gif", ".webp", ".mp4", ".webm", ".ogg",
    ".mov", ".avi" }

\* ------------------------------------------------------------ input values
\* a form field: a string of characters, or undefined when the field is absent
NoValue == [defined |-> FALSE, chars |-> <<>>]
Str(chars) == [defined |-> TRUE, chars |-> chars]

Rep(n, ch) == [i \in 1..n |-> ch]

\* String.prototype.toLowerCase on the extensions the inputs use
toLowerCase(ext) ==
  CASE ext = ".JPG" -> ".jpg"
    [] ext = ".MP4" -> ".mp4"
    [] OTHER -> ext

\* path.extname(file.originalname || '').toLowerCase(); an originalname is
\* modelled as << base, extension >>
extname(originalname) == originalname[2]

File(mime, base, ext, size) ==
  [mimetype |-> mime, originalname |-> <<base, ext>>, size |-> size]

jpg == File("image/jpeg", "a", ".jpg", 1)
JPG == File("image/jpeg", "b", ".JPG", fileSize)
mp4 == File("video/mp4", "c", ".mp4", 1)
exe == File("application/x-msdownload", "d", ".exe", 1)
jpegNamedExe == File("image/jpeg", "e", ".exe", 1)
exeNamedJpg == File("application/x-msdownload", "f", ".jpg", 1)
jpegNamedMp4 == File("image/jpeg", "g", ".mp4", 1)
tooBig == File("image/jpeg", "h", ".jpg", fileSize + 1)

Request(guestName, message, files) ==
  [guestName |-> guestName, message |-> message, files |-> files]

Al == Str(<<"A", "l">>)
Hi == Str(<<"h", "i">>)

\* requests that pass every check of the handler
ValidRequests ==
  { Request(Al, NoValue, <<jpg>>),
    Request(Al, Hi, <<JPG, mp4>>),
    Request(Al, Str(<<>>), <<jpegNamedMp4>>),
    Request(Str(<<"<", "/">>), NoValue, <<>>) }

\* requests that one check of multer or of the handler refuses
InvalidRequests ==
  { Request(NoValue, NoValue, <<jpg>>),
    Request(Str(<<>>), Hi, <<jpg>>),
    Request(Str(Rep(MaxGuestNameLength + 1, "x")), NoValue, <<jpg>>),
    Request(Al, Str(Rep(MaxMessageLength + 1, "m")), <<jpg>>),
    Request(Al, NoValue, <<exe>>),
    Request(Al, NoValue, <<jpg, jpegNamedExe>>),
    Request(Al, NoValue, <<exeNamedJpg>>),
    Request(Al, NoValue, <<tooBig>>),
    Request(Al, NoValue, Rep(MaxFileCount + 1, jpg)),
    Request(NoValue, NoValue, <<exe>>) }

Requests == ValidRequests \cup InvalidRequests

Calls == 1..MaxCalls
EventIds == 1..MaxEvents
EventNames == { NoValue, Str(<<"W">>) }


\* ------------------------------------------------------------ pure helpers
Range(seq) == { seq[i] : i \in 1..Len(seq) }

\* a JavaScript value that is truthy: a non-empty string
Truthy(input) == input.defined /\ input.chars # <<>>

\* sanitizeInput: the replacement of one character
Escape(ch) ==
  CASE ch = "&" -> <<"&", "a", "m", "p", ";">>
    [] ch = "<" -> <<"&", "l", "t", ";">>
    [] ch = ">" -> <<"&", "g", "t", ";">>
    [] ch = "\"" -> <<"&", "q", "u", "o", "t", ";">>
    [] ch = "'" -> <<"&", "#", "x", "2", "7", ";">>
    [] ch = "/" -> <<"&", "#", "x", "2", "F", ";">>
    [] OTHER -> <<ch>>

RECURSIVE EscapeAll(_)
EscapeAll(str) ==
  IF str = <<>> THEN <<>>
  ELSE IF Len(str) = 1 THEN Escape(str[1])
  ELSE LET half == Len(str) \div 2
       IN  EscapeAll(SubSeq(str, 1, half))
             \o EscapeAll(SubSeq(str, half + 1, Len(str)))

\* a value that is not a string gives the empty string
sanitizeInput(input) ==
  IF input.defined THEN Str(EscapeAll(input.chars)) ELSE Str(<<>>)

validateInputLength(input, maxLength) ==
  IF ~input.defined THEN FALSE
  ELSE Len(input.chars) > 0 /\ Len(input.chars) <= maxLength

\* mutant of fileFilter: the extension is not looked at
fileFilterMimeOnly(f) == f.mimetype \in ALLOWED_MIME_TYPES

\* multer fileFilter: TRUE when the file is passed on to the handler
fileFilter(f) ==
  LET ext == toLowerCase(extname(f.originalname))
  IN  f.mimetype \in ALLOWED_MIME_TYPES /\ ext \in ALLOWED_EXTENSIONS

\* upload.array('files', 20) with limits.fileSize: TRUE when multer hands the
\* request to the handler, FALSE when it raises an error, which the error
\* middleware answers with 400
multerAccepts(files) ==
  /\ Len(files) <= MaxFileCount
  /\ \A i \in 1..Len(files) : fileFilter(files[i]) /\ files[i].size <= fileSize

\* the handler's own checks of guestName and message
guestNameValid(guestName) ==
  Truthy(guestName) /\ validateInputLength(guestName, MaxGuestNameLength)

messageValid(message) ==
  Truthy(message) => validateInputLength(message, MaxMessageLength)

\* ------------------------------------------------------------------ state
VARIABLES
  file,        \* content of events.json: a sequence of event records
  blobs,       \* public ids of the objects Cloudinary holds
  call,        \* call[c]: the upload call c, its locals and its response
  nextEventId, \* number of ids uuidv4 has handed to POST /api/events
  readFaults,  \* reads of events.json that may still fail
  destroyed,   \* history: << c, public id >> of every destroy call c issued
  destroyFailed, \* history: << c, public id >> of every destroy that failed
  dl,          \* the download call, its locals, its archive and its response
  hung         \* remote attempts that will never complete

vars ==
  <<file, blobs, call, nextEventId, readFaults, destroyed, destroyFailed,
    dl, hung>>

\* undefined, where the code holds an event record
NoEvent == [id |-> 0, name |-> Str(<<>>), uploads |-> <<>>]

IdleCall ==
  [pc |-> "idle", req |-> Request(NoValue, NoValue, <<>>), eventId |-> 0,
   event |-> NoEvent,
   uploads |-> <<>>, cloudinaryPublicIds |-> <<>>, destroys |-> {},
   status |-> 0, files |-> <<>>, commits |-> 0]

\* GET /api/events/:eventId/download before the request arrives
IdleDownload ==
  [pc |-> "idle", eventId |-> 0, uploads |-> <<>>, i |-> 0, status |-> 0,
   zipHeaders |-> FALSE, headersSent |-> FALSE, ended |-> FALSE,
   entries |-> <<>>, held |-> 0, archiveError |-> FALSE,
   disconnected |-> FALSE, results |-> <<>>,
   lateFetch |-> FALSE, lateWrite |-> FALSE, orphanFetch |-> FALSE,
   run |-> 1, prev |-> [eventId |-> 0, entries |-> <<>>, results |-> <<>>]]

InitStores ==
  /\ dl = IdleDownload
  /\ hung = {}
  /\ file = <<>>
  /\ blobs = {}
  /\ call = [c \in Calls |-> IdleCall]
  /\ nextEventId = 1
  /\ destroyed = {}
  /\ destroyFailed = {}

Init == InitStores /\ readFaults = 0

InitReadFaults == InitStores /\ readFaults = MaxReadFaults

\* ----------------------------------------------------------- metadata file
ReadOutcomes == IF readFaults > 0 THEN BOOLEAN ELSE {TRUE}

\* readEvents: the parsed file, or [] when reading it throws
readEvents(readOk) == IF readOk THEN file ELSE <<>>

\* events.findIndex(e => e.id === eventId), 1-based; 0 stands for -1
findIndex(events, eventId) ==
  IF \E i \in 1..Len(events) : events[i].id = eventId
  THEN CHOOSE i \in 1..Len(events) :
         /\ events[i].id = eventId
         /\ \A j \in 1..(i - 1) : events[j].id # eventId
  ELSE 0

\* mutant of findEvent: the first event stands in for one that is not found
findEventLoose(eventId, readOk) ==
  LET events == readEvents(readOk)
      i == findIndex(events, eventId)
  IN  IF events = <<>> THEN NoEvent
      ELSE IF i = 0 THEN events[1] ELSE events[i]

\* findEvent: the event record, or NoEvent for undefined
findEvent(eventId, readOk) ==
  LET events == readEvents(readOk)
      i == findIndex(events, eventId)
  IN  IF i = 0 THEN NoEvent ELSE events[i]


\* mutant of writeEvents: a failing write has stored the list when it throws
writeEventsTorn(events, writeOk) == events

\* writeEvents(events): the file after the call; a failing write throws and
\* leaves the file as it was
writeEvents(events, writeOk) == IF writeOk THEN events ELSE file

\* mutant of writeEventsThrows: the catch logs the error and does not rethrow
writeEventsSwallows(writeOk) == FALSE

\* writeEvents rethrows the error of a failing write
writeEventsThrows(writeOk) == ~writeOk

\* ------------------------------------------------------------ POST /api/events
\* the whole handler: uuidv4 draws a fresh id, then readEvents, push and
\* writeEvents run without an await between them
CreateEvent(name, readOk, writeOk) ==
  /\ nextEventId <= MaxEvents
  /\ IF ~(Truthy(name) /\ validateInputLength(name, 200))
     THEN UNCHANGED <<file, nextEventId, readFaults>>
     ELSE LET newEvent == [id |-> nextEventId, name |-> sanitizeInput(name),
                           uploads |-> <<>>]
              events == Append(readEvents(readOk), newEvent)
          IN  /\ file' = writeEvents(events, writeOk)
              /\ nextEventId' = nextEventId + 1
              /\ readFaults' = IF readOk THEN readFaults ELSE readFaults - 1
  /\ UNCHANGED <<blobs, call, destroyed, destroyFailed, dl, hung>>

\* ------------------------------------------- POST /api/events/:eventId/upload
\* public_id of the i-th file of call c: `${Date.now()}-${uuidv4()}`, fresh
PublicId(c, i) == <<c, i>>

\* the record of the i-th file of call c; id is a fresh uuidv4
FileRecord(c, i, req) ==
  [id |-> <<"upload", c, i>>,
   originalName |-> req.files[i].originalname,
   type |-> req.files[i].mimetype,
   guestName |-> sanitizeInput(req.guestName),
   message |-> IF Truthy(req.message) THEN sanitizeInput(req.message)
               ELSE Str(<<>>),
   cloudinaryPublicId |-> PublicId(c, i)]

\* res.status(status).json(...): the handler is over
Respond(rec, status) == [rec EXCEPT !.pc = "responded", !.status = status]

\* mutant of IssueDestroys: the rollback issues no destroy
IssueNoDestroys(c, rec, pc, log) ==
  [rec |-> [rec EXCEPT !.pc = pc, !.destroys = {}], log |-> log]

\* mutant of IssueDestroys: the rollback destroys the blobs of every record
\* of the event, not those of cloudinaryPublicIds
IssueDestroysOfEvent(c, rec, pc, log) ==
  LET ids == { r.cloudinaryPublicId : r \in Range(rec.event.uploads) }
  IN  [rec |-> [rec EXCEPT !.pc = pc, !.destroys = ids],
       log |-> log \cup { <<c, k>> : k \in ids }]

\* one rollback: a destroy is issued for every id in cloudinaryPublicIds and
\* the handler awaits them all (each destroy has its own .catch)
IssueDestroys(c, rec, pc, log) ==
  [rec |-> [rec EXCEPT !.pc = pc, !.destroys = Range(rec.cloudinaryPublicIds)],
   log |-> log \cup { <<c, k>> : k \in Range(rec.cloudinaryPublicIds) }]

\* the catch block of the handler
Catch(c, rec, log) ==
  IF Len(rec.cloudinaryPublicIds) > 0
  THEN IssueDestroys(c, rec, "rollbackCatch", log)
  ELSE [rec |-> Respond(rec, 500), log |-> log]

\* mutant of AfterDestroys: the destroys have no .catch, so a failed destroy
\* rejects the Promise.all and the handler ends in its catch block with 500
AfterDestroysUncaught(c, rec, log) ==
  IF \E k \in Range(rec.cloudinaryPublicIds) : <<c, k>> \in destroyFailed
  THEN [rec |-> Respond(rec, 500), log |-> log]
  ELSE CASE rec.pc = "rollbackNotFound" ->
              [rec |-> Respond(rec, 404), log |-> log]
         [] rec.pc = "rollbackWrite" -> Catch(c, rec, log)
         [] rec.pc = "rollbackCatch" ->
              [rec |-> Respond(rec, 500), log |-> log]

\* what follows the await of a rollback's Promise.all
AfterDestroys(c, rec, log) ==
  CASE rec.pc = "rollbackNotFound" -> [rec |-> Respond(rec, 404), log |-> log]
    [] rec.pc = "rollbackWrite" -> Catch(c, rec, log)
    [] rec.pc = "rollbackCatch" -> [rec |-> Respond(rec, 500), log |-> log]

\* mutant of Rollback: the Promise.all of the destroys is not awaited
RollbackNoAwait(c, rec, pc, log) ==
  LET issued == IssueDestroys(c, rec, pc, log)
  IN  IF pc = "rollbackNotFound"
      THEN [rec |-> Respond(issued.rec, 404), log |-> issued.log]
      ELSE issued

\* a rollback whose Promise.all is over an empty list goes on at once
Rollback(c, rec, pc, log) ==
  LET issued == IssueDestroys(c, rec, pc, log)
  IN  IF issued.rec.destroys = {} THEN AfterDestroys(c, issued.rec, issued.log)
      ELSE issued

\* mutant of replaceEvent: the list written holds the event alone
replaceEventOnly(events, eventIndex, event) == <<event>>

\* events[eventIndex] = event, on the list read a moment before
replaceEvent(events, eventIndex, event) == [events EXCEPT ![eventIndex] = event]

\* what follows `await Promise.all(uploadPromises)` when every upload
\* resolved: the records, the commit to events.json and the response.
\* Gives the call record, the file and the destroy log after it.
Commit(c, rec, readOk, writeOk) ==
  LET n == Len(rec.req.files)
      ids == [i \in 1..n |-> PublicId(c, i)]
      uploadedFileRecords == [i \in 1..n |-> FileRecord(c, i, rec.req)]
      event == [rec.event EXCEPT !.uploads = @ \o uploadedFileRecords]
      events == readEvents(readOk)
      eventIndex == findIndex(events, rec.eventId)
      r1 == [rec EXCEPT !.cloudinaryPublicIds = ids, !.event = event]
      r2 == [r1 EXCEPT !.commits = @ + 1]
      written == writeEvents(replaceEvent(events, eventIndex, event), writeOk)
  IN  IF eventIndex = 0
      THEN Rollback(c, r1, "rollbackNotFound", destroyed) @@ [file |-> file]
      ELSE IF ~writeEventsThrows(writeOk)
      THEN [rec |-> [Respond(r2, 200) EXCEPT !.files = uploadedFileRecords],
            log |-> destroyed,
            file |-> written]
      ELSE Rollback(c, r2, "rollbackWrite", destroyed) @@ [file |-> written]

ReadsLeft(readOk1, readOk2) ==
  readFaults - (IF readOk1 THEN 0 ELSE 1) - (IF readOk2 THEN 0 ELSE 1)

\* the request arrives: multer, the handler's validation, the existence
\* check and the start of one upload_stream per file
UploadStart(c, req, eventId, readOk, readOk2, writeOk) ==
  /\ call[c].pc = "idle"
  /\ \A d \in Calls : d < c => call[d].pc # "idle"
  /\ LET rec == [call[c] EXCEPT !.req = req, !.eventId = eventId]
         event == findEvent(eventId, readOk)
         started == [rec EXCEPT !.pc = "uploading", !.event = event,
                                !.uploads = [i \in 1..Len(req.files) |-> "pending"]]
     IN  IF ~multerAccepts(req.files)
         THEN /\ call' = [call EXCEPT ![c] = Respond(rec, 400)]
              /\ UNCHANGED <<file, readFaults, destroyed>>
         ELSE IF ~guestNameValid(req.guestName) \/ ~messageValid(req.message)
         THEN /\ call' = [call EXCEPT ![c] = Respond(rec, 400)]
              /\ UNCHANGED <<file, readFaults, destroyed>>
         ELSE IF event = NoEvent
         THEN /\ call' = [call EXCEPT ![c] = Respond(rec, 404)]
              /\ readFaults' = ReadsLeft(readOk, TRUE)
              /\ UNCHANGED <<file, destroyed>>
         ELSE IF Len(req.files) > 0
         THEN /\ call' = [call EXCEPT ![c] = started]
              /\ readFaults' = ReadsLeft(readOk, TRUE)
              /\ UNCHANGED <<file, destroyed>>
         ELSE \* Promise.all([]) is resolved already
              /\ readOk2 \in IF ReadsLeft(readOk, TRUE) > 0 THEN BOOLEAN ELSE {TRUE}
              /\ LET out == Commit(c, started, readOk2, writeOk)
                 IN  /\ call' = [call EXCEPT ![c] = out.rec]
                     /\ file' = out.file
                     /\ destroyed' = out.log
              /\ readFaults' = ReadsLeft(readOk, readOk2)
  /\ UNCHANGED <<blobs, nextEventId, destroyFailed, dl, hung>>

\* mutant of AllResolved: the first resolution is enough (Promise.any)
AnyResolved(uploads) == \E j \in 1..Len(uploads) : uploads[j] = "ok"

\* Promise.all(uploadPromises) resolves when every promise has resolved
AllResolved(uploads) == \A j \in 1..Len(uploads) : uploads[j] = "ok"

\* the callback of one upload_stream: the object is stored and the promise
\* resolves, or the promise rejects. Promise.all rejects at the first
\* rejection and resolves at the last resolution.
UploadDone(c, i, uploadOk, readOk, writeOk) ==
  /\ i \in 1..Len(call[c].uploads)
  /\ call[c].uploads[i] = "pending"
  /\ blobs' = IF uploadOk THEN blobs \cup {PublicId(c, i)} ELSE blobs
  /\ LET rec == [call[c] EXCEPT
                   !.uploads[i] = IF uploadOk THEN "ok" ELSE "failed"]
     IN  IF rec.pc # "uploading"
         THEN \* Promise.all has rejected before: nobody awaits this upload
              /\ call' = [call EXCEPT ![c] = rec]
              /\ UNCHANGED <<file, readFaults, destroyed>>
         ELSE IF ~uploadOk
         THEN LET out == Catch(c, rec, destroyed)
              IN  /\ call' = [call EXCEPT ![c] = out.rec]
                  /\ destroyed' = out.log
                  /\ UNCHANGED <<file, readFaults>>
         ELSE IF ~AllResolved(rec.uploads)
         THEN /\ call' = [call EXCEPT ![c] = rec]
              /\ UNCHANGED <<file, readFaults, destroyed>>
         ELSE LET out == Commit(c, rec, readOk, writeOk)
              IN  /\ call' = [call EXCEPT ![c] = out.rec]
                  /\ file' = out.file
                  /\ destroyed' = out.log
                  /\ readFaults' = ReadsLeft(readOk, TRUE)
  /\ UNCHANGED <<nextEventId, destroyFailed, dl, hung>>

\* one cloudinary.uploader.destroy settles: the object is gone, or the
\* destroy failed and its .catch logged the error
DestroyDone(c, k, destroyOk) ==
  /\ k \in call[c].destroys
  /\ blobs' = IF destroyOk THEN blobs \ {k} ELSE blobs
  /\ destroyFailed' =
       IF destroyOk THEN destroyFailed ELSE destroyFailed \cup {<<c, k>>}
  /\ LET rec == [call[c] EXCEPT !.destroys = @ \ {k}]
         out == IF rec.destroys = {} THEN AfterDestroys(c, rec, destroyed)
                ELSE [rec |-> rec, log |-> destroyed]
     IN  /\ call' = [call EXCEPT ![c] = out.rec]
         /\ destroyed' = out.log
  /\ UNCHANGED <<file, nextEventId, readFaults, dl, hung>>

Next ==
  \/ \E name \in EventNames, readOk \in ReadOutcomes, writeOk \in BOOLEAN :
       CreateEvent(name, readOk, writeOk)
  \/ \E c \in Calls, req \in Requests, eventId \in EventIds,
        readOk \in ReadOutcomes, readOk2 \in BOOLEAN, writeOk \in BOOLEAN :
       UploadStart(c, req, eventId, readOk, readOk2, writeOk)
  \/ \E c \in Calls, i \in 1..MaxFileCount, uploadOk \in BOOLEAN,
        readOk \in ReadOutcomes, writeOk \in BOOLEAN :
       UploadDone(c, i, uploadOk, readOk, writeOk)
  \/ \E c \in Calls, k \in blobs \cup UNION { call[d].destroys : d \in Calls },
        destroyOk \in BOOLEAN :
       DestroyDone(c, k, destroyOk)

Spec == Init /\ [][Next]_vars

\* requests whose guest name or message is as long as the limit, one
\* character shorter and one character longer
BoundaryRequests ==
  { Request(Str(Rep(n, "x")), NoValue, <<jpg>>) :
      n \in {MaxGuestNameLength - 1, MaxGuestNameLength, MaxGuestNameLength + 1} }
  \cup
  { Request(Al, Str(Rep(n, "m")), <<jpg>>) :
      n \in {MaxMessageLength - 1, MaxMessageLength, MaxMessageLength + 1} }

NextBoundary ==
  \/ \E name \in EventNames, readOk \in ReadOutcomes, writeOk \in BOOLEAN :
       CreateEvent(name, readOk, writeOk)
  \/ \E c \in Calls, req \in BoundaryRequests, eventId \in EventIds,
        readOk \in ReadOutcomes, readOk2 \in BOOLEAN, writeOk \in BOOLEAN :
       UploadStart(c, req, eventId, readOk, readOk2, writeOk)
  \/ \E c \in Calls, i \in 1..MaxFileCount, uploadOk \in BOOLEAN,
        readOk \in ReadOutcomes, writeOk \in BOOLEAN :
       UploadDone(c, i, uploadOk, readOk, writeOk)
  \/ \E c \in Calls, k \in blobs \cup UNION { call[d].destroys : d \in Calls },
        destroyOk \in BOOLEAN :
       DestroyDone(c, k, destroyOk)

SpecBoundary == Init /\ [][NextBoundary]_vars

\* ---------------------------------------- GET /api/events/:eventId/download
\* the gallery a download starts from: event 1 with the records of earlier
\* one-file uploads, each with its blob in Cloudinary
GalleryRecord(n) ==
  IF n % 2 = 1 THEN FileRecord(n, 1, Request(Al, NoValue, <<jpg>>))
  ELSE FileRecord(n, 1, Request(Str(<<"<", "/">>), Hi, <<mp4>>))

Gallery(n) == [i \in 1..n |-> GalleryRecord(i)]

InitDownload ==
  /\ \E n \in 0..MaxRecords :
       /\ file = <<[id |-> 1, name |-> Str(<<"W">>), uploads |-> Gallery(n)]>>
       /\ blobs = { PublicId(i, 1) : i \in 1..n }
  /\ call = [c \in Calls |-> IdleCall]
  /\ nextEventId = 2
  /\ readFaults = 0
  /\ destroyed = {}
  /\ destroyFailed = {}
  /\ dl = IdleDownload
  /\ hung = {}

\* the text of a uuidv4: every uuid has the same length and holds no "."
uuidText(id) == <<"#", ToString(id[2]), ToString(id[3])>>

\* mutant of entryName: the name starts with the time of the download
entryNameStamped(upload) ==
  <<ToString(dl.run)>> \o upload.guestName.chars \o <<"_">>
    \o uuidText(upload.id)
    \o <<IF extname(upload.originalName) = "" THEN ".jpg"
         ELSE extname(upload.originalName)>>

\* mutant of entryName: the name is the guest name and the extension
entryNameOfGuest(upload) ==
  upload.guestName.chars
    \o <<IF extname(upload.originalName) = "" THEN ".jpg"
         ELSE extname(upload.originalName)>>

\* `${upload.guestName}_${upload.id}${ext}` with
\* ext = path.extname(upload.originalName) || '.jpg'; the text of the name,
\* an extension being one piece of text that starts with its "."
entryName(upload) ==
  upload.guestName.chars \o <<"_">> \o uuidText(upload.id)
    \o <<IF extname(upload.originalName) = "" THEN ".jpg"
         ELSE extname(upload.originalName)>>

\* guest names the upload handler accepts, as the guest typed them
GuestNames ==
  { Al,
    Str(<<"<", "/">>),
    Str(<<".", ".", "\\", "x">>),
    Str(<<"A", "l", "_", "#", "1", "1">>),
    Str(<<"a", ":", "*", ".jpg">>) }

\* one-file upload requests of these guests
NameRequests ==
  { r \in { Request(n, NoValue, <<f>>) : n \in GuestNames, f \in {jpg, JPG, mp4} } :
      multerAccepts(r.files) /\ guestNameValid(r.guestName) }

\* a download of event 1 whose gallery holds the records of two one-file
\* uploads, by any two of these guests
InitNames ==
  /\ \E r1 \in NameRequests, r2 \in NameRequests :
       file = <<[id |-> 1, name |-> Str(<<"W">>),
                 uploads |-> <<FileRecord(1, 1, r1), FileRecord(2, 1, r2)>>]>>
  /\ blobs = { PublicId(1, 1), PublicId(2, 1) }
  /\ call = [c \in Calls |-> IdleCall]
  /\ nextEventId = 2
  /\ readFaults = 0
  /\ destroyed = {}
  /\ destroyFailed = {}
  /\ dl = IdleDownload
  /\ hung = {}

Active(rec) == rec.pc \in {"fetching", "reading", "finalizing"}

\* the loop reaches record i: `await fetch(upload.path)`
StartFetch(rec, i) ==
  [rec EXCEPT !.pc = "fetching", !.i = i,
              !.lateFetch = @ \/ rec.archiveError,
              !.orphanFetch = @ \/ rec.disconnected]

\* mutant of NextRecord: a failed fetch ends the loop (break for continue)
NextRecordOrBreak(rec, result) ==
  LET r == [rec EXCEPT !.results = Append(@, result)]
  IN  IF rec.i < Len(rec.uploads) /\ result = "ok"
      THEN StartFetch(r, rec.i + 1)
      ELSE [r EXCEPT !.pc = "finalizing", !.lateWrite = @ \/ rec.archiveError]

\* the loop is over record rec.i with the given result: the next record,
\* or `await archive.finalize()` after the last one
NextRecord(rec, result) ==
  LET r == [rec EXCEPT !.results = Append(@, result)]
  IN  IF rec.i < Len(rec.uploads) THEN StartFetch(r, rec.i + 1)
      ELSE [r EXCEPT !.pc = "finalizing", !.lateWrite = @ \/ rec.archiveError]

\* mutant of NothingToDownload: the empty gallery is not looked at
NoEventToDownload(event) == event = NoEvent

\* the two early returns of the handler: unknown event, empty gallery
NothingToDownload(event) == event = NoEvent \/ Len(event.uploads) = 0

\* the request arrives: findEvent, the two 404 answers, the zip headers,
\* archiver('zip'), archive.pipe(res) and the fetch of the first record
DownloadStart(eventId, readOk) ==
  /\ dl.pc = "idle"
  /\ LET event == findEvent(eventId, readOk)
         rec == [dl EXCEPT !.eventId = eventId]
     IN  IF NothingToDownload(event)
         THEN dl' = [rec EXCEPT !.pc = "done", !.status = 404,
                                !.headersSent = TRUE, !.ended = TRUE]
         ELSE dl' = StartFetch([rec EXCEPT !.uploads = event.uploads,
                                           !.zipHeaders = TRUE], 1)
  /\ readFaults' = ReadsLeft(readOk, TRUE)
  /\ UNCHANGED <<file, blobs, call, nextEventId, destroyed, destroyFailed, hung>>

\* fetch(upload.path) settles: a response that is ok, a response that is
\* not ok (the object is missing, an error status), or a rejection
FetchDone(outcome) ==
  /\ dl.pc = "fetching"
  /\ <<"fetch", dl.i>> \notin hung
  /\ outcome = "ok" => dl.uploads[dl.i].cloudinaryPublicId \in blobs
  /\ dl' = IF outcome = "ok" THEN [dl EXCEPT !.pc = "reading"]
           ELSE NextRecord(dl, "failed")
  /\ UNCHANGED <<file, blobs, call, nextEventId, readFaults, destroyed,
                 destroyFailed, hung>>

\* response.arrayBuffer() settles: the body is appended to the archive
\* under its entry name, or the rejection is caught and the file skipped
BodyDone(bodyOk) ==
  /\ dl.pc = "reading"
  /\ dl' = IF bodyOk
           THEN NextRecord([dl EXCEPT
                  !.entries = Append(@, entryName(dl.uploads[dl.i])),
                  !.held = @ + 1,
                  !.lateWrite = @ \/ dl.archiveError], "ok")
           ELSE NextRecord(dl, "failed")
  /\ UNCHANGED <<file, blobs, call, nextEventId, readFaults, destroyed,
                 destroyFailed, hung>>

\* archiver writes one appended entry through the pipe to the response,
\* which the client reads
ArchiveDrain ==
  /\ Active(dl)
  /\ dl.held > 0
  /\ ~dl.ended /\ ~dl.disconnected
  /\ dl' = [dl EXCEPT !.held = @ - 1, !.headersSent = TRUE, !.status = 200]
  /\ UNCHANGED <<file, blobs, call, nextEventId, readFaults, destroyed,
                 destroyFailed, hung>>

\* archive.finalize() settles: every appended entry has left the queue
\* (or the response takes no more bytes) and the piped response is ended
FinalizeDone ==
  /\ dl.pc = "finalizing"
  /\ dl.held = 0 \/ dl.ended \/ dl.disconnected
  /\ dl' = IF dl.ended \/ dl.disconnected
           THEN [dl EXCEPT !.pc = "done"]
           ELSE [dl EXCEPT !.pc = "done", !.headersSent = TRUE,
                           !.status = 200, !.ended = TRUE]
  /\ UNCHANGED <<file, blobs, call, nextEventId, readFaults, destroyed,
                 destroyFailed, hung>>

\* archive.on('error'): 500 when no byte of the response has been sent,
\* res.end() otherwise; the handler's loop is not told
ArchiveError ==
  /\ Active(dl)
  /\ ~dl.archiveError
  /\ dl' = IF ~dl.headersSent
           THEN [dl EXCEPT !.archiveError = TRUE, !.status = 500,
                           !.headersSent = TRUE, !.ended = TRUE]
           ELSE [dl EXCEPT !.archiveError = TRUE, !.ended = TRUE]
  /\ UNCHANGED <<file, blobs, call, nextEventId, readFaults, destroyed,
                 destroyFailed, hung>>

\* the client closes the connection; the handler listens for no such event
ClientDisconnect ==
  /\ Active(dl)
  /\ ~dl.disconnected /\ ~dl.ended
  /\ dl' = [dl EXCEPT !.disconnected = TRUE]
  /\ UNCHANGED <<file, blobs, call, nextEventId, readFaults, destroyed,
                 destroyFailed, hung>>

FetchOutcomes == {"ok", "notOk", "throws"}

NextDownload ==
  \/ \E eventId \in EventIds, readOk \in ReadOutcomes :
       DownloadStart(eventId, readOk)
  \/ \E outcome \in FetchOutcomes : FetchDone(outcome)
  \/ \E bodyOk \in BOOLEAN : BodyDone(bodyOk)
  \/ ArchiveDrain
  \/ FinalizeDone
  \/ ArchiveError
  \/ ClientDisconnect

SpecDownload == InitDownload /\ [][NextDownload]_vars

\* fetch(upload.path) is given no timeout and no abort signal: when the
\* remote end never answers, the promise the loop awaits never settles
FetchHangs ==
  /\ dl.pc = "fetching"
  /\ <<"fetch", dl.i>> \notin hung
  /\ hung' = hung \cup {<<"fetch", dl.i>>}
  /\ UNCHANGED <<file, blobs, call, nextEventId, readFaults, destroyed,
                 destroyFailed, dl>>

NextLive == NextDownload \/ FetchHangs

\* every settled promise has its continuation run, the pipe keeps writing
\* while the response takes bytes
SpecLive ==
  /\ InitDownload /\ [][NextLive]_vars
  /\ WF_vars(\E outcome \in FetchOutcomes : FetchDone(outcome))
  /\ WF_vars(\E bodyOk \in BOOLEAN : BodyDone(bodyOk))
  /\ WF_vars(ArchiveDrain)
  /\ WF_vars(FinalizeDone)

\* the response of a download is over and the client sends the request
\* again: the handler runs anew, with new locals and a new archive
DownloadAgain ==
  /\ dl.pc = "done"
  /\ dl.run < MaxDownloads
  /\ dl' = [IdleDownload EXCEPT
             !.run = dl.run + 1,
             !.prev = [eventId |-> dl.eventId, entries |-> dl.entries,
                       results |-> dl.results]]
  /\ UNCHANGED <<file, blobs, call, nextEventId, readFaults, destroyed,
                 destroyFailed, hung>>

NextTwice == NextDownload \/ DownloadAgain

SpecTwice == InitDownload /\ [][NextTwice]_vars

SpecNames == InitNames /\ [][NextDownload]_vars

SpecReadFaults == InitReadFaults /\ [][Next]_vars


\* ------------------------------------------------------------------ claims
\* the upload records events.json holds for an event, and for all events
UploadsIn(events, eventId) ==
  IF \E i \in 1..Len(events) : events[i].id = eventId
  THEN (CHOOSE e \in Range(events) : e.id = eventId).uploads
  ELSE <<>>

StoredUploads(eventId) == UploadsIn(file, eventId)

StoredRecords == UNION { Range(file[i].uploads) : i \in 1..Len(file) }

\* the public ids call c attempts to write, and the ids of its records
KeysOf(c) == { PublicId(c, i) : i \in 1..Len(call[c].req.files) }

RecordIdsOf(c) == { <<"upload", c, i>> : i \in 1..Len(call[c].req.files) }

Returned(c, status) == call[c].pc = "responded" /\ call[c].status = status

\* no destroy issued by call c has failed
DestroysSucceeded(c) == \A k \in KeysOf(c) : <<c, k>> \notin destroyFailed

\* C1: when two upload calls to the same event have both returned success,
\* the stored Upload list of the event holds the records of both
C1_BothUploadsStored ==
  \A c \in Calls, d \in Calls :
    (c # d /\ Returned(c, 200) /\ Returned(d, 200)
      /\ call[c].eventId = call[d].eventId)
    => (Range(call[c].files) \cup Range(call[d].files))
         \subseteq Range(StoredUploads(call[c].eventId))

\* C2: once an upload call with a failed blob write has returned 500 (and
\* no destroy of it failed), none of its blobs is in the blob store and none
\* of its records is in the metadata file
C2_FailedWriteLeavesNoBlob ==
  \A c \in Calls :
    (Returned(c, 500) /\ DestroysSucceeded(c)
      /\ \E i \in 1..Len(call[c].uploads) : call[c].uploads[i] = "failed")
    => /\ KeysOf(c) \cap blobs = {}
       /\ \A r \in StoredRecords : r.id \notin RecordIdsOf(c)

\* C3: the step in which the metadata write of an upload call fails leaves
\* the metadata file as it was; when the call has returned its 500, none of
\* its records is stored, a destroy has been issued for each of its blobs,
\* and a blob of it remains only if a destroy of it failed
C3_AtResponse ==
  \A c \in Calls :
    (Returned(c, 500) /\ call[c].commits = 1)
    => /\ \A r \in StoredRecords : r.id \notin RecordIdsOf(c)
       /\ \A k \in KeysOf(c) :
            /\ <<c, k>> \in destroyed
            /\ k \in blobs => <<c, k>> \in destroyFailed

C3_FailedWriteStep ==
  \A c \in Calls :
    (call[c].commits = 0 /\ call'[c].commits = 1 /\ call'[c].status # 200)
    => /\ file' = file
       /\ \A k \in KeysOf(c)' : <<c, k>> \in destroyed'

C3_WriteFailureRolledBack == []C3_AtResponse /\ [][C3_FailedWriteStep]_vars

C3_Witness ==
  \E c \in Calls :
    /\ Returned(c, 500) /\ call[c].commits = 1
    /\ Len(call[c].req.files) = 2
    /\ KeysOf(c) \cap blobs = {}
    /\ StoredUploads(call[c].eventId) = <<>>

\* C4: when no upload call is in progress (and no destroy has failed), the
\* blobs the stored records name are exactly the blobs in the blob store
Quiescent ==
  \A c \in Calls :
    /\ call[c].pc \in {"idle", "responded"}
    /\ \A i \in 1..Len(call[c].uploads) : call[c].uploads[i] # "pending"

C4_RecordIffBlob ==
  (Quiescent /\ destroyFailed = {})
  => { r.cloudinaryPublicId : r \in StoredRecords } = blobs


\* C5: the step in which an upload call returns success: every blob write
\* of it has succeeded, its metadata write was made, it returns one record
\* per input file, and every returned record has its blob in the blob store
\* and is in the stored Upload list of its event
C5_SuccessStep ==
  \A c \in Calls :
    (call[c].status # 200 /\ call'[c].status = 200)
    => LET rec == call'[c] IN
       /\ Len(rec.uploads) = Len(rec.req.files)
       /\ \A i \in 1..Len(rec.uploads) : rec.uploads[i] = "ok"
       /\ rec.commits = 1
       /\ Len(rec.files) = Len(rec.req.files)
       /\ \A i \in 1..Len(rec.files) :
            /\ rec.files[i].cloudinaryPublicId \in blobs'
            /\ rec.files[i] \in Range(UploadsIn(file', rec.eventId))

C5_SuccessIsComplete == [][C5_SuccessStep]_vars

C5_Witness ==
  \E c \in Calls :
    /\ Returned(c, 200)
    /\ Len(call[c].files) = 2
    /\ KeysOf(c) \subseteq blobs
    /\ Range(call[c].files) \subseteq Range(StoredUploads(call[c].eventId))

\* C6: an upload call attempts its metadata write at most once, and only
\* when every blob write of it has completed successfully
C6_WritesBeforeCommit ==
  \A c \in Calls :
    /\ call[c].commits <= 1
    /\ call[c].commits = 1
       => /\ Len(call[c].uploads) = Len(call[c].req.files)
          /\ \A i \in 1..Len(call[c].uploads) : call[c].uploads[i] = "ok"

C6_Witness ==
  \E c \in Calls :
    /\ call[c].commits = 1
    /\ Len(call[c].req.files) = 2
    /\ call[c].pc = "rollbackWrite"

\* C7: every destroy an upload call issues is for a public id that one of
\* its own uploads wrote, and a step removes from the blob store only ids
\* written by the call whose destroy it is
C7_OwnIdsOnly ==
  \A p \in destroyed :
    \E i \in 1..Len(call[p[1]].uploads) :
      /\ p[2] = <<p[1], i>>
      /\ call[p[1]].uploads[i] = "ok"

C7_RemovalStep ==
  \A k \in blobs \ blobs' : <<k[1], k>> \in destroyed

C7_DeletesOwnBlobsOnly == []C7_OwnIdsOnly /\ [][C7_RemovalStep]_vars

C7_Witness ==
  \E c \in Calls, d \in Calls :
    /\ c # d
    /\ call[c].eventId = call[d].eventId
    /\ Returned(d, 200) /\ KeysOf(d) # {} /\ KeysOf(d) \subseteq blobs
    /\ Returned(c, 500) /\ KeysOf(c) # {} /\ KeysOf(c) \cap blobs = {}
    /\ \A k \in KeysOf(c) : <<c, k>> \in destroyed

\* what the validation rules refuse, stated on the request alone
NameViolation(req) ==
  \/ ~req.guestName.defined
  \/ Len(req.guestName.chars) = 0
  \/ Len(req.guestName.chars) > MaxGuestNameLength

MessageViolation(req) ==
  req.message.defined /\ Len(req.message.chars) > MaxMessageLength

FileViolation(req) ==
  \/ Len(req.files) > MaxFileCount
  \/ \E i \in 1..Len(req.files) :
       \/ req.files[i].mimetype \notin ALLOWED_MIME_TYPES
       \/ toLowerCase(req.files[i].originalname[2]) \notin ALLOWED_EXTENSIONS
       \/ req.files[i].size > fileSize

Violates(req) == NameViolation(req) \/ MessageViolation(req) \/ FileViolation(req)

Known(eventId) == \E i \in 1..Len(file) : file[i].id = eventId

Arrives(c) == call[c].pc = "idle" /\ call'[c].pc # "idle"

NoEffect(c) ==
  /\ call'[c].pc = "responded"
  /\ call'[c].uploads = <<>> /\ call'[c].commits = 0
  /\ blobs' = blobs /\ file' = file /\ destroyed' = destroyed

\* C8: a valid upload request for an event that is not in the metadata
\* file is answered 404 with no blob write and no metadata write; a request
\* with an invalid guest name for such an event is answered 400
C8_UnknownEventStep ==
  \A c \in Calls :
    (Arrives(c) /\ ~Known(call'[c].eventId))
    => /\ ~Violates(call'[c].req) => (call'[c].status = 404 /\ NoEffect(c))
       /\ NameViolation(call'[c].req) => call'[c].status = 400

C8_UnknownEventIs404 == [][C8_UnknownEventStep]_vars

C8_Witness ==
  \E c \in Calls, d \in Calls :
    /\ Returned(c, 404) /\ ~Violates(call[c].req) /\ call[c].req.files # <<>>
    /\ ~Known(call[c].eventId) /\ KeysOf(c) \cap blobs = {}
    /\ Returned(d, 400) /\ NameViolation(call[d].req)
    /\ ~Known(call[d].eventId)

\* C9: an upload request that violates validation is answered 400 and
\* writes no blob, destroys no blob and leaves the metadata file as it was
C9_InvalidRequestStep ==
  \A c \in Calls :
    (Arrives(c) /\ Violates(call'[c].req))
    => (call'[c].status = 400 /\ NoEffect(c))

C9_InvalidRequestIs400 == [][C9_InvalidRequestStep]_vars

C9_Witness ==
  \E c \in Calls :
    /\ Returned(c, 400)
    /\ Known(call[c].eventId)
    /\ ~NameViolation(call[c].req)
    /\ \E i \in 1..Len(call[c].req.files) :
         call[c].req.files[i].originalname[2] = ".exe"
    /\ KeysOf(c) \cap blobs = {}

\* the extensions that belong to a media type
ExtensionsOf(mime) ==
  CASE mime = "image/jpeg" -> {".jpg", ".jpeg"}
    [] mime = "image/png" -> {".png"}
    [] mime = "image/gif" -> {".gif"}
    [] mime = "image/webp" -> {".webp"}
    [] mime = "video/mp4" -> {".mp4"}
    [] mime = "video/webm" -> {".webm"}
    [] mime = "video/ogg" -> {".ogg"}
    [] mime = "video/quicktime" -> {".mov"}
    [] mime = "video/x-msvideo" -> {".avi"}
    [] OTHER -> {}

\* C10: every file of a request that was not refused with 400 has an
\* extension that belongs to its media type
C10_TypeAndExtensionAgree ==
  \A c \in Calls :
    (call[c].pc # "idle" /\ call[c].status # 400)
    => \A i \in 1..Len(call[c].req.files) :
         toLowerCase(call[c].req.files[i].originalname[2])
           \in ExtensionsOf(call[c].req.files[i].mimetype)


\* C11: an upload call whose event was found by the existence check and is
\* not found by the read at commit time issues a destroy for every blob it
\* wrote and leaves the metadata file as it was; it answers 404 only when
\* every destroy has settled, and a blob of it remains only if its destroy
\* failed
C11_AtResponse ==
  \A c \in Calls :
    (Returned(c, 404) /\ call[c].event # NoEvent)
    => /\ call[c].destroys = {}
       /\ call[c].commits = 0
       /\ \A r \in StoredRecords : r.id \notin RecordIdsOf(c)
       /\ \A k \in KeysOf(c) :
            /\ <<c, k>> \in destroyed
            /\ k \in blobs => <<c, k>> \in destroyFailed

C11_VanishStep ==
  \A c \in Calls :
    (call[c].pc \in {"idle", "uploading"}
      /\ call'[c].event # NoEvent
      /\ (call'[c].pc = "rollbackNotFound" \/ call'[c].status = 404))
    => /\ file' = file
       /\ \A k \in KeysOf(c)' : <<c, k>> \in destroyed'
       /\ call'[c].pc = "responded" <=> KeysOf(c)' = {}

C11_VanishedEventRolledBack == []C11_AtResponse /\ [][C11_VanishStep]_vars

C11_Witness ==
  \E c \in Calls :
    /\ Returned(c, 404) /\ call[c].event # NoEvent
    /\ Len(call[c].req.files) = 2
    /\ ~Known(call[c].eventId)
    /\ KeysOf(c) \cap blobs = {}


\* C12: a failed destroy changes nothing in the course of an upload call:
\* a call with a failed destroy has issued a destroy for each of its blobs,
\* answers only when every destroy has settled, and answers 500 after a
\* failed metadata write and 404 after a vanished event; the step in which
\* a destroy settles goes on the same way whether the destroy failed or not
C12_AfterFailedDestroy ==
  \A c \in Calls :
    (\E k \in KeysOf(c) : <<c, k>> \in destroyFailed)
    => /\ \A k \in KeysOf(c) : <<c, k>> \in destroyed
       /\ call[c].pc \in
            {"rollbackNotFound", "rollbackWrite", "rollbackCatch", "responded"}
       /\ call[c].pc = "responded"
          => /\ call[c].destroys = {}
             /\ call[c].status = IF call[c].commits = 1 THEN 500 ELSE 404

C12_SettleStep ==
  \A c \in Calls :
    (call[c].destroys # {} /\ call'[c] # call[c])
    => IF Cardinality(call[c].destroys) > 1
       THEN /\ call'[c].pc = call[c].pc
            /\ Cardinality(call'[c].destroys) = Cardinality(call[c].destroys) - 1
       ELSE CASE call[c].pc = "rollbackNotFound" ->
                   call'[c].pc = "responded" /\ call'[c].status = 404
              [] call[c].pc = "rollbackWrite" ->
                   /\ call'[c].pc = "rollbackCatch"
                   /\ call'[c].destroys = KeysOf(c)
              [] call[c].pc = "rollbackCatch" ->
                   call'[c].pc = "responded" /\ call'[c].status = 500
              [] OTHER -> FALSE

C12_DestroyFailureKeepsOutcome ==
  []C12_AfterFailedDestroy /\ [][C12_SettleStep]_vars

C12_Witness ==
  \E c \in Calls : \E k \in KeysOf(c), j \in KeysOf(c) :
    /\ Returned(c, 404)
    /\ <<c, k>> \in destroyFailed /\ k \in blobs
    /\ j \notin blobs


IsPrefix(s, t) == Len(s) <= Len(t) /\ \A i \in 1..Len(s) : s[i] = t[i]

\* C13: no step removes an event from the metadata file, and the Upload
\* list an event has after a step has the list it had before as a prefix
C13_AppendOnlyStep ==
  \A i \in 1..Len(file) :
    \E j \in 1..Len(file') :
      /\ file'[j].id = file[i].id
      /\ IsPrefix(file[i].uploads, file'[j].uploads)

C13_EventsAppendOnly == [][C13_AppendOnlyStep]_vars


\* C14: an upload call that returned success carried between 1 and 20 files
C14_SuccessHasFiles ==
  \A c \in Calls :
    Returned(c, 200)
    => (Len(call[c].req.files) >= 1 /\ Len(call[c].req.files) <= MaxFileCount)


\* the entry names of the first k records whose fetch succeeded
RECURSIVE NamesOfFetched(_, _, _)
NamesOfFetched(uploads, results, k) ==
  IF k = 0 THEN <<>>
  ELSE LET before == NamesOfFetched(uploads, results, k - 1)
       IN  IF results[k] = "ok"
           THEN Append(before, uploads[k].guestName.chars \o <<"_">>
                                 \o uuidText(uploads[k].id)
                                 \o <<uploads[k].originalName[2]>>)
           ELSE before

\* C15: the archive of a download holds, in list order, one entry for each
\* record passed so far whose fetch succeeded and none for a record whose
\* fetch failed; a download that has opened its archive passes every record
\* whatever fetches fail, and when it ends (the archive stage did not fail
\* and the client stayed) the response is 200 and every entry was sent
C15_FetchedEntriesOnly ==
  /\ Len(dl.results) <= Len(dl.uploads)
  /\ dl.entries = NamesOfFetched(dl.uploads, dl.results, Len(dl.results))
  /\ (dl.pc = "done" /\ dl.zipHeaders)
     => /\ Len(dl.results) = Len(dl.uploads)
        /\ (~dl.archiveError /\ ~dl.disconnected)
           => (dl.status = 200 /\ dl.held = 0)

C15_Witness ==
  /\ dl.pc = "done" /\ dl.status = 200
  /\ ~dl.archiveError /\ ~dl.disconnected
  /\ dl.results = <<"ok", "failed", "ok">>
  /\ Len(dl.entries) = 2


\* C16: a download request for an event that is not in the metadata file,
\* or whose Upload list is empty, is answered 404 in the step it arrives:
\* no zip header is set, no fetch is started and the archive has no entry
C16_NothingToDownloadStep ==
  (dl.pc = "idle" /\ dl'.pc # "idle"
    /\ (~Known(dl'.eventId) \/ StoredUploads(dl'.eventId) = <<>>))
  => /\ dl'.pc = "done" /\ dl'.status = 404
     /\ ~dl'.zipHeaders
     /\ dl'.i = 0 /\ dl'.results = <<>>
     /\ dl'.entries = <<>> /\ dl'.held = 0

C16_AfterNotFound ==
  dl.status = 404
  => /\ dl.pc = "done" /\ ~dl.zipHeaders
     /\ dl.i = 0 /\ dl.entries = <<>>

C16_EmptyGalleryIs404 == []C16_AfterNotFound /\ [][C16_NothingToDownloadStep]_vars

C16_Witness ==
  /\ dl.status = 404 /\ dl.pc = "done"
  /\ Known(dl.eventId) /\ StoredUploads(dl.eventId) = <<>>
  /\ ~dl.zipHeaders /\ dl.i = 0


\* C17: once the archive stage has failed after the response began (the
\* handler ended the response), no later record is fetched, nothing is
\* appended to the archive and the archive is not finalized
C17_NoWriteAfterArchiveError ==
  (dl.archiveError /\ dl.status = 200) => (~dl.lateFetch /\ ~dl.lateWrite)

\* C18: after the client has disconnected no blob fetch is started
C18_NoFetchAfterDisconnect == dl.disconnected => ~dl.orphanFetch

\* C19: a download whose loop is waiting for a blob fetch eventually
\* finalizes its archive and ends, also when that fetch never completes
C19_DownloadEnds == (dl.pc = "fetching") ~> (dl.pc = "done")

\* C20: records are fetched one after the other in list order, the next
\* fetch starting only when the record before it is appended or skipped,
\* and at most one fetched body waits to be written to the response
C20_OneFileAtATime ==
  /\ dl.pc \in {"fetching", "reading"} => Len(dl.results) = dl.i - 1
  /\ dl.held <= 1


\* a record whose original file name has no extension
ExtlessRecord ==
  FileRecord(1, 1, Request(Al, NoValue, <<File("image/jpeg", "n", "", 1)>>))

\* C21: the entry name of a record is its guest name, "_", its identifier
\* and its extension (".jpg" when the original name has none); it does not
\* change with the storage key; records with different identifiers have
\* different entry names, and so have the entries of an archive
C21_NameOf(u) ==
  /\ SubSeq(entryName(u), 1, Len(u.guestName.chars) + 1)
       = u.guestName.chars \o <<"_">>
  /\ SubSeq(entryName(u), Len(u.guestName.chars) + 2, Len(entryName(u)) - 1)
       = uuidText(u.id)
  /\ entryName([u EXCEPT !.cloudinaryPublicId = <<0, 0>>]) = entryName(u)

C21_EntryNamesDistinct ==
  /\ \A i \in 1..Len(dl.uploads) :
       /\ C21_NameOf(dl.uploads[i])
       /\ entryName(dl.uploads[i])[Len(entryName(dl.uploads[i]))]
            = extname(dl.uploads[i].originalName)
  /\ C21_NameOf(ExtlessRecord)
  /\ entryName(ExtlessRecord)[Len(entryName(ExtlessRecord))] = ".jpg"
  /\ \A i, j \in 1..Len(dl.uploads) :
       dl.uploads[i].id # dl.uploads[j].id
       => entryName(dl.uploads[i]) # entryName(dl.uploads[j])
  /\ \A a, b \in 1..Len(dl.entries) : a # b => dl.entries[a] # dl.entries[b]

C21_Witness ==
  /\ dl.pc = "done" /\ Len(dl.entries) = 2
  /\ dl.uploads[1].id # dl.uploads[2].id
  /\ dl.uploads[1].guestName = dl.uploads[2].guestName
  /\ dl.uploads[1].originalName = dl.uploads[2].originalName
  /\ dl.entries[1] # dl.entries[2]


\* characters a file name must not hold: the path separators and the
\* characters file systems refuse
IllegalInFileName == { "/", "\\", ":", "*", "?", "\"", "<", ">", "|" }

\* C22: no entry of an archive has a name with a path separator, a ".."
\* segment or a character that is illegal in a file name
C22_EntryNamesAreFileNames ==
  \A a \in 1..Len(dl.entries) :
    /\ \A k \in 1..Len(dl.entries[a]) : dl.entries[a][k] \notin IllegalInFileName
    /\ \A k \in 1..(Len(dl.entries[a]) - 1) :
         ~(dl.entries[a][k] = "." /\ dl.entries[a][k + 1] = ".")


\* C23: a second download of the same event, whose fetches had the same
\* outcomes as those of the first, ends with the same entry names in the
\* same order; no step of a download changes the metadata file or the
\* blob store
C23_SameNames ==
  (dl.run = 2 /\ dl.pc = "done" /\ dl.eventId = dl.prev.eventId
    /\ dl.results = dl.prev.results)
  => dl.entries = dl.prev.entries

C23_DownloadStep == dl' # dl => (file' = file /\ blobs' = blobs)

C23_DownloadIdempotent == []C23_SameNames /\ [][C23_DownloadStep]_vars

C23_Witness ==
  /\ dl.run = 2 /\ dl.pc = "done" /\ dl.eventId = 1 /\ dl.prev.eventId = 1
  /\ dl.results = <<"ok", "failed", "ok">> /\ dl.prev.results = dl.results
  /\ Len(dl.entries) = 2 /\ dl.entries = dl.prev.entries
  /\ Len(StoredUploads(1)) = 3


\* the lengths the handler's error messages promise: a guest name of 1 to
\* 99 characters, a message (when there is one) of fewer than 500
PromisedLengths(req) ==
  /\ req.guestName.defined
  /\ Len(req.guestName.chars) >= 1
  /\ Len(req.guestName.chars) < MaxGuestNameLength
  /\ Truthy(req.message) => Len(req.message.chars) < MaxMessageLength

\* C24: an upload request whose files multer accepts is answered 400 on
\* arrival exactly when its guest name or its message has not the promised
\* length; a name of 100 or a message of 500 characters is refused
C24_LengthStep ==
  \A c \in Calls :
    (Arrives(c) /\ multerAccepts(call'[c].req.files))
    => (call'[c].status = 400 <=> ~PromisedLengths(call'[c].req))

C24_LengthLimitsExclusive == [][C24_LengthStep]_vars


\* C25: the step in which an upload call commits to its event keeps the
\* number and the order of the stored events, the id and the name of every
\* event, and the whole record of every event but its own; a step that
\* adds an event keeps every stored event as it was
C25_CommitStep ==
  \A c \in Calls :
    (call[c].commits = 0 /\ call'[c].commits = 1 /\ call'[c].status = 200)
    => /\ Len(file') = Len(file)
       /\ \A i \in 1..Len(file) :
            /\ file'[i].id = file[i].id
            /\ file'[i].name = file[i].name
            /\ file[i].id # call'[c].eventId => file'[i] = file[i]

C25_CreateStep == Len(file') > Len(file) => IsPrefix(file, file')

C25_CommitChangesOneEvent == [][C25_CommitStep /\ C25_CreateStep]_vars

C25_Witness ==
  \E c \in Calls, d \in Calls :
    /\ Returned(c, 200) /\ Returned(d, 200)
    /\ call[c].eventId # call[d].eventId
    /\ call[c].files # <<>> /\ call[d].files # <<>>
    /\ StoredUploads(call[c].eventId) = call[c].files
    /\ StoredUploads(call[d].eventId) = call[d].files


\* C26: the step in which a create-event call stores its event keeps every
\* event stored before, with its Upload list, and adds after them one event
\* with an empty Upload list and an id no stored event has
C26_CreateStep ==
  (nextEventId' = nextEventId + 1
    /\ \E i \in 1..Len(file') : file'[i].id = nextEventId)
  => /\ Len(file') = Len(file) + 1
     /\ IsPrefix(file, file')
     /\ file'[Len(file')].id = nextEventId
     /\ file'[Len(file')].uploads = <<>>
     /\ \A i \in 1..Len(file) : file[i].id # nextEventId

C26_CreateKeepsEvents == [][C26_CreateStep]_vars

\* C27: every Upload record in the metadata file has its blob in the blob
\* store, and no step removes the blob of a stored record
C27_RecordsHaveBlobs ==
  \A r \in StoredRecords : r.cloudinaryPublicId \in blobs

C27_DeleteStep ==
  \A k \in blobs \ blobs' :
    \A r \in StoredRecords \cup StoredRecords' : r.cloudinaryPublicId # k

C27_StoredBlobsNeverDeleted == []C27_RecordsHaveBlobs /\ [][C27_DeleteStep]_vars

C27_Witness ==
  \E c \in Calls, d \in Calls :
    /\ Returned(c, 200) /\ call[c].files # <<>>
    /\ Range(call[c].files) \subseteq StoredRecords
    /\ Returned(d, 500) /\ call[d].commits = 1
    /\ KeysOf(d) # {} /\ KeysOf(d) \cap blobs = {}
    /\ \A k \in KeysOf(d) : <<d, k>> \in destroyed
    /\ \A r \in StoredRecords : r.cloudinaryPublicId \in blobs

====
